---- MODULE Spec2Model ----
(***************************************************************************)
(* Folder Forensics (src/app.py): the snapshot-and-diff engine.            *)
(*                                                                         *)
(*   get_file_info / scan_folder   walk a folder into a dict path -> info  *)
(*   save_baseline_for / load_baseline_for   the JSON baseline store       *)
(*   compare                       the added/deleted/changed/unchanged diff*)
(*   the three button handlers of the Streamlit script                     *)
(*                                                                         *)
(* Python strings are sequences of one-character strings, so that          *)
(* str.startswith and the code-point order used by sorted() are computed.  *)
(* A Python dict is the sequence of its <<key, value>> items in insertion  *)
(* order, keys unique.                                                     *)
(***************************************************************************)
EXTENDS Integers, Sequences, FiniteSets, TLC

\* Bounds of the model.
\* Distinct (st_size, st_mtime) attribute sets a file of the scanned tree takes.
NumVersions == 1
\* Distinct attribute sets of the records handed to compare on its own.
CmpVersions == 3

VARIABLES
    fs,       \* the scanned tree: file -> what os.stat answers for it
    disk,     \* BASE_DIR: file name -> content (a sequence of written chunks)
    out,      \* what the last script run (or call) produced
    saved,    \* history: per folder string, the outcome of its last save
    cmpOld,   \* compare on its own: the baseline dict
    cmpNew,   \* compare on its own: the current dict
    wr,       \* a session in the middle of save_baseline_for
    rd        \* what a second session's load_baseline_for returned

vars == <<fs, disk, out, saved, cmpOld, cmpNew, wr, rd>>

----------------------------------------------------------------------------
(* Python strings *)

\* ord(c) for the characters the model uses.
Ord(c) ==
    CASE c = "$" -> 36
      [] c = "/" -> 47
      [] c = "b" -> 98
      [] c = "d" -> 100
      [] c = "s" -> 115
      [] c = "x" -> 120
      [] c = "z" -> 122
      [] c = "~" -> 126

Min(a, b) == IF a < b THEN a ELSE b

\* s < t on Python str: the first differing code point decides, a proper
\* prefix is smaller.
StrLess(s, t) ==
    \E i \in 1..(Min(Len(s), Len(t)) + 1) :
        /\ \A j \in 1..(i - 1) : s[j] = t[j]
        /\ \/ i > Len(s) /\ i <= Len(t)
           \/ i <= Len(s) /\ i <= Len(t) /\ Ord(s[i]) < Ord(t[i])

\* sorted(list(S)) for a set of strings.
RECURSIVE sorted(_)
sorted(S) ==
    IF S = {} THEN <<>>
    ELSE LET m == CHOOSE x \in S : \A y \in S \ {x} : StrLess(x, y)
         IN  <<m>> \o sorted(S \ {m})

\* s.startswith(prefix)
startswith(s, prefix) ==
    Len(s) >= Len(prefix) /\ SubSeq(s, 1, Len(prefix)) = prefix

\* Python values of the info dicts: None, a str, a bool.
PyNone == [py |-> "None"]
PyStr(x) == [py |-> "str", v |-> x]
PyBool(b) == [py |-> "bool", v |-> b]

----------------------------------------------------------------------------
(* Python dicts: sequences of <<key, value>> items, keys unique *)

DictKeys(d) == {d[i][1] : i \in 1..Len(d)}

DictGet(d, k) == d[CHOOSE i \in 1..Len(d) : d[i][1] = k][2]

\* d[k] = v: an existing key keeps its place, a new key goes last.
DictSet(d, k, v) ==
    IF k \in DictKeys(d)
    THEN [i \in 1..Len(d) |-> IF d[i][1] = k THEN <<k, v>> ELSE d[i]]
    ELSE Append(d, <<k, v>>)

\* d1 == d2 on dicts: same keys, equal values, the order of insertion aside.
DictEq(d1, d2) ==
    /\ DictKeys(d1) = DictKeys(d2)
    /\ \A k \in DictKeys(d1) : DictGet(d1, k) = DictGet(d2, k)

\* "error" in info
HasErrorField(info) == "error" \in DOMAIN info

\* info.get(field): the value, None when the key is missing.
Get(info, field) == IF field \in DOMAIN info THEN info[field] ELSE PyNone

----------------------------------------------------------------------------
(* The scanned tree *)

Sep == "/"
\* Faulty variant: the filter looks at the first character alone.
LockPrefix_tilde == <<"~">>
LockPrefix == <<"~", "$">>

RootDir == <<"/", "d">>
SubDir  == <<"/", "d", "/", "s">>

\* os.path.join(root, name) / Path(root) / name
join(root, name) == root \o <<Sep>> \o name

\* What os.scandir lists, in its order: the entries that are files and the
\* entries that are directories.
DirFiles(dir) ==
    IF dir = RootDir THEN << <<"z">>, <<"~", "$", "z">> >>
    ELSE IF dir = SubDir THEN << <<"~", "b">> >>
    ELSE <<>>

DirSubs(dir) == IF dir = RootDir THEN << <<"s">> >> ELSE <<>>

Dirs == {RootDir, SubDir}

\* A file of the tree is its full path.
AllFiles ==
    UNION {{join(d, DirFiles(d)[i]) : i \in 1..Len(DirFiles(d))} : d \in Dirs}

LockFile == join(RootDir, <<"~", "$", "z">>)

\* What the tree holds for a file: nothing, a file os.stat can read (with
\* attribute set v), or a directory entry os.stat fails on. The lock file
\* is always there: its attributes are never read.
Absent == [st |-> "absent"]
Readable(v) == [st |-> "ok", v |-> v]
StatFails == [st |-> "fails"]

FileStates(f) ==
    IF f = LockFile THEN {Readable(0)}
    ELSE {Absent, StatFails} \cup {Readable(v) : v \in 0..(NumVersions - 1)}

\* The attributes behind attribute set v: st_size in bytes, the three times
\* in half seconds.
st_size(v) == 1000 + 24 * (v % 2)
st_mtime(v) == 3 * (v \div 2)
st_ctime(v) == 0
st_atime(v) == st_mtime(v)

----------------------------------------------------------------------------
(* Metadata extractor *)

Units == <<"B", "KB", "MB", "GB", "TB">>

\* f"{n/d:.2f}" as a count of hundredths: n/d is exact in binary floating
\* point (d is a power of 1024), so the formatting rounds it half to even.
Format2f(n, d) ==
    LET q == (100 * n) \div d
        r == (100 * n) % d
    IN  IF 2 * r > d \/ (2 * r = d /\ q % 2 = 1) THEN q + 1 ELSE q

\* The loop of human_readable_size, the size being n/d at unit Units[i].
RECURSIVE sizeLoop(_, _, _)
sizeLoop(n, d, i) ==
    IF i > Len(Units) THEN <<Format2f(n, d), "PB">>
    ELSE IF n < 1024 * d THEN <<Format2f(n, d), Units[i]>>
    ELSE sizeLoop(n, d * 1024, i + 1)

human_readable_size(size_in_bytes) == PyStr(sizeLoop(size_in_bytes, 1, 1))

\* strftime("%Y-%m-%d %H:%M:%S") of an instant given in half seconds: the
\* text names the whole second. The instants of the model are all valid, the
\* except branch (an empty string) is not taken.
timestamp(ts) == PyStr(<<ts \div 2>>)

\* get_file_info(Path(root) / fname), st being what the tree holds for the
\* path. path.stat() raises on an entry it cannot read; the except branch
\* calls path.is_file() again, outside any try: isFileRaises says whether
\* that call re-raises the OSError (pathlib re-raises every errno but
\* ENOENT, ENOTDIR, EBADF and ELOOP) or answers False. A path that stat
\* can read is a regular file: os.walk listed it among the files.
get_file_info(root, fname, st, isFileRaises) ==
    IF st.st = "ok"
    THEN [raised |-> FALSE,
          info |-> [name     |-> PyStr(fname),
                    relpath  |-> PyStr(join(root, fname)),
                    size     |-> human_readable_size(st_size(st.v)),
                    created  |-> timestamp(st_ctime(st.v)),
                    modified |-> timestamp(st_mtime(st.v)),
                    accessed |-> timestamp(st_atime(st.v)),
                    is_file  |-> PyBool(TRUE)]]
    ELSE IF isFileRaises
    THEN [raised |-> TRUE, exc |-> "PermissionError"]
    ELSE [raised |-> FALSE,
          info |-> [name     |-> PyStr(fname),
                    relpath  |-> PyStr(join(root, fname)),
                    size     |-> PyNone,
                    created  |-> PyNone,
                    modified |-> PyNone,
                    accessed |-> PyNone,
                    is_file  |-> PyBool(FALSE),
                    error    |-> PyStr(<<"x">>)]]

----------------------------------------------------------------------------
(* Tree scanner *)

\* str(Path(folder_path)): pathlib drops trailing separators.
RECURSIVE PathOf(_)
PathOf(folder_path) ==
    IF Len(folder_path) > 1 /\ folder_path[Len(folder_path)] = Sep
    THEN PathOf(SubSeq(folder_path, 1, Len(folder_path) - 1))
    ELSE folder_path

\* p.exists()
exists(tree, p) == p \in Dirs \/ (p \in AllFiles /\ tree[p] # Absent)

\* os.walk(top), top down: one <<root, files>> per directory, the root
\* first, then every subdirectory's walk.
RECURSIVE walk(_, _), walkSubs(_, _, _)
walk(tree, top) ==
    IF top \notin Dirs THEN <<>>
    ELSE << <<top, SelectSeq(DirFiles(top),
                             LAMBDA n : tree[join(top, n)] # Absent)>> >>
         \o walkSubs(tree, top, 1)
walkSubs(tree, top, i) ==
    IF i > Len(DirSubs(top)) THEN <<>>
    ELSE walk(tree, join(top, DirSubs(top)[i])) \o walkSubs(tree, top, i + 1)

\* The two nested for loops of scan_folder from directory di, file fi of
\* the walk, results being the dict built so far.
RECURSIVE scanLoop(_, _, _, _, _, _)
scanLoop(tree, w, di, fi, results, isFileRaises) ==
    IF di > Len(w) THEN [raised |-> "", results |-> results]
    ELSE IF fi > Len(w[di][2])
    THEN scanLoop(tree, w, di + 1, 1, results, isFileRaises)
    ELSE LET root  == w[di][1]
             fname == w[di][2][fi]
         IN  IF startswith(fname, LockPrefix)
             THEN scanLoop(tree, w, di, fi + 1, results, isFileRaises)
             ELSE LET r == get_file_info(root, fname,
                                         tree[join(root, fname)], isFileRaises)
                  IN  IF r.raised
                      THEN [raised |-> r.exc]
                      ELSE scanLoop(tree, w, di, fi + 1,
                                    DictSet(results, join(root, fname), r.info),
                                    isFileRaises)

\* Faulty variant: the root is walked without the exists() check; os.walk of a
\* missing directory yields nothing.
scan_folder_noExistsCheck(folder_path, tree, isFileRaises) ==
    scanLoop(tree, walk(tree, PathOf(folder_path)), 1, 1, <<>>, isFileRaises)

scan_folder(folder_path, tree, isFileRaises) ==
    LET p == PathOf(folder_path)
    IN  IF ~exists(tree, p)
        THEN [raised |-> "FileNotFoundError"]
        ELSE scanLoop(tree, walk(tree, p), 1, 1, <<>>, isFileRaises)

----------------------------------------------------------------------------
(* Differ *)

\* Faulty variant: the modified time is not looked at.
RecordsDiffer_sizeOnly(o, n) == Get(o, "size") # Get(n, "size")

\* Faulty variant: a record without a size counts as differing.
RecordsDiffer_noneDiffers(o, n) ==
    \/ Get(o, "size") = PyNone
    \/ Get(n, "size") = PyNone
    \/ Get(o, "size") # Get(n, "size")
    \/ Get(o, "modified") # Get(n, "modified")

\* Line 171: the two records of a common path differ in size or in modified.
RecordsDiffer(o, n) ==
    \/ Get(o, "size") # Get(n, "size")
    \/ Get(o, "modified") # Get(n, "modified")

\* Faulty variant: deleted is every key of old, the common ones not taken out.
compare_deletedAll(old, new) ==
    LET old_set == DictKeys(old)
        new_set == DictKeys(new)
        common  == sorted(old_set \cap new_set)
        differs(p) == RecordsDiffer(DictGet(old, p), DictGet(new, p))
    IN  [added     |-> sorted(new_set \ old_set),
         deleted   |-> sorted(old_set),
         changed   |-> SelectSeq(common, differs),
         unchanged |-> SelectSeq(common, LAMBDA p : ~differs(p))]

compare(old, new) ==
    LET old_set == DictKeys(old)
        new_set == DictKeys(new)
        added   == sorted(new_set \ old_set)
        deleted == sorted(old_set \ new_set)
        common  == sorted(old_set \cap new_set)
        differs(p) == RecordsDiffer(DictGet(old, p), DictGet(new, p))
    IN  [added     |-> added,
         deleted   |-> deleted,
         changed   |-> SelectSeq(common, differs),
         unchanged |-> SelectSeq(common, LAMBDA p : ~differs(p))]

----------------------------------------------------------------------------
(* JSON *)

\* json.dump of one value: None -> null, True/False -> true/false, a str ->
\* a string.
JsonOf(v) ==
    IF v.py = "None" THEN [js |-> "null"]
    ELSE IF v.py = "bool" THEN [js |-> IF v.v THEN "true" ELSE "false"]
    ELSE [js |-> "string", v |-> v.v]

\* json.load of one value.
PyOf(j) ==
    IF j.js = "null" THEN PyNone
    ELSE IF j.js = "true" THEN PyBool(TRUE)
    ELSE IF j.js = "false" THEN PyBool(FALSE)
    ELSE PyStr(j.v)

\* datetime.now().isoformat(): the wall clock is not modelled, no operation
\* reads created_at but the sidebar's message.
Now == PyStr(<<"now">>)

\* The text json.dump writes for {"folder", "created_at", "files": data}, as
\* the chunks it hands to f.write in order: the head up to the opening brace
\* of "files", one chunk per item of data, the closing braces.
json_dump(path_str, data) ==
    << [c |-> "head", folder |-> JsonOf(PyStr(path_str)),
        created_at |-> JsonOf(Now)] >>
    \o [i \in 1..Len(data) |->
          [c |-> "item", key |-> data[i][1],
           value |-> [f \in DOMAIN data[i][2] |-> JsonOf(data[i][2][f])]]]
    \o << [c |-> "tail"] >>

\* The items of a parsed "files" object, a repeated key keeping its last
\* value.
RECURSIVE itemsOf(_, _, _)
itemsOf(text, i, acc) ==
    IF i >= Len(text) THEN acc
    ELSE itemsOf(text, i + 1,
                 DictSet(acc, text[i].key,
                         [f \in DOMAIN text[i].value |-> PyOf(text[i].value[f])]))

\* json.load of a file's text: the document, or JSONDecodeError when the
\* text is empty, stops early or goes on after the closing braces.
json_load(text) ==
    IF /\ Len(text) >= 2
       /\ text[1].c = "head"
       /\ text[Len(text)].c = "tail"
       /\ \A i \in 2..(Len(text) - 1) : text[i].c = "item"
    THEN [raised |-> "",
          value |-> [folder     |-> PyOf(text[1].folder),
                     created_at |-> PyOf(text[1].created_at),
                     files      |-> itemsOf(text, 2, <<>>)]]
    ELSE [raised |-> "JSONDecodeError"]

----------------------------------------------------------------------------
(* Baseline store *)

\* The folder strings the user types: the tree's root, the same root with a
\* trailing separator, and a path that does not exist.
Folders == {<<"/", "d">>, <<"/", "d", "/">>, <<"/", "x">>}

\* Faulty variant: the path is normalised before it is hashed.
safe_name_hash_normalized(path_str) ==
    CASE PathOf(path_str) = <<"/", "d">> -> "b1a5fa6c1056fce6b1936f815d2c35ce6f929623"
      [] PathOf(path_str) = <<"/", "x">> -> "629e2b1dc0b26083ad30bab39cfc78645dd00372"

\* hashlib.sha1(path_str.encode("utf-8")).hexdigest()
safe_name_hash(path_str) ==
    CASE path_str = <<"/", "d">>      -> "b1a5fa6c1056fce6b1936f815d2c35ce6f929623"
      [] path_str = <<"/", "d", "/">> -> "2246fb3b2f20b0046ea7e681cccd475dbab20320"
      [] path_str = <<"/", "x">>      -> "629e2b1dc0b26083ad30bab39cfc78645dd00372"

\* BASE_DIR / f"{key}.json"
BaselineFile(path_str) == <<safe_name_hash(path_str), ".json">>

\* Faulty variant: the file is opened for appending, an old content kept.
OpenTruncate_keep(d, fp) ==
    [n \in DOMAIN d \cup {fp} |-> IF n \in DOMAIN d THEN d[n] ELSE <<>>]

\* open(fp, "w"): the file is created, or cut to nothing.
OpenTruncate(d, fp) ==
    [n \in DOMAIN d \cup {fp} |-> IF n = fp THEN <<>> ELSE d[n]]

\* f.write(chunk) at the end of the file.
WriteChunk(d, fp, chunk) == [d EXCEPT ![fp] = Append(@, chunk)]

\* The writes of chunks[i..n], in order.
RECURSIVE WriteChunks(_, _, _, _, _)
WriteChunks(d, fp, chunks, i, n) ==
    IF i > n THEN d
    ELSE WriteChunks(WriteChunk(d, fp, chunks[i]), fp, chunks, i + 1, n)

\* What the storage does to one save: nothing, refuse the open (permission
\* denied), or fail a write after k chunks reached the file (disk full, an
\* unencodable chunk).
NoFault == [at |-> "none"]
OpenFault == [at |-> "open"]
WriteFault(k) == [at |-> "write", k |-> k]
Faults(data) ==
    {NoFault, OpenFault} \cup {WriteFault(k) : k \in 0..(Len(data) + 1)}

\* save_baseline_for(path_str, data) under a fault: the directory afterwards
\* and the exception raised, "" for none. The with block closes the file on
\* the way out of an exception, what was written stays.
save_baseline_for(d, path_str, data, fault) ==
    LET fp     == BaselineFile(path_str)
        chunks == json_dump(path_str, data)
    IN  IF fault.at = "open"
        THEN [disk |-> d, raised |-> "PermissionError"]
        ELSE IF fault.at = "write"
        THEN [disk |-> WriteChunks(OpenTruncate(d, fp), fp, chunks, 1, fault.k),
              raised |-> "OSError"]
        ELSE [disk |-> WriteChunks(OpenTruncate(d, fp), fp, chunks, 1, Len(chunks)),
              raised |-> "", fp |-> fp]

\* load_baseline_for(path_str): None, the parsed document, or json.load's
\* exception.
load_baseline_for(d, path_str) ==
    LET fp == BaselineFile(path_str)
    IN  IF fp \notin DOMAIN d
        THEN [raised |-> "", value |-> PyNone]
        ELSE json_load(d[fp])

----------------------------------------------------------------------------
(* The Streamlit script: one run per click, start to end *)

Idle == [op |-> "none"]
NeverSaved == [st |-> "never"]

Init ==
    /\ fs = [f \in AllFiles |-> IF f = LockFile THEN Readable(0) ELSE Absent]
    /\ disk = <<>>
    /\ out = Idle
    /\ saved = [F \in Folders |-> NeverSaved]
    /\ cmpOld = <<>>
    /\ cmpNew = <<>>
    /\ wr = Idle
    /\ rd = Idle

\* The world outside the program, between two runs of the script: a file of
\* the tree appears, goes, changes or becomes unreadable.
FsChange(f, s) ==
    /\ out = Idle
    /\ wr = Idle
    /\ s # fs[f]
    /\ fs' = [fs EXCEPT ![f] = s]
    /\ UNCHANGED <<disk, out, saved, cmpOld, cmpNew, wr, rd>>

\* The run is over and its output on the page: the script waits for the next
\* click, which reruns it from the top on a cleared page.
Rendered ==
    /\ out # Idle
    /\ out' = Idle
    /\ UNCHANGED <<fs, disk, saved, cmpOld, cmpNew, wr, rd>>

\* Lines 194-199: every run first loads the baseline of the typed folder for
\* the sidebar, outside any try: an exception of json.load ends the run
\* before a button's handler is reached.
Sidebar(folder_input) == load_baseline_for(disk, folder_input)

SidebarFailed(op, folder_input) ==
    [op |-> op, folder |-> folder_input, stage |-> "sidebar",
     err |-> Sidebar(folder_input).raised]

\* Lines 202-210, "Create / Update Baseline": scan, then save, any exception
\* of either shown by st.error.
CreateBaseline(folder_input) ==
    /\ out = Idle
    /\ \E isFileRaises \in BOOLEAN :
        LET current == scan_folder(folder_input, fs, isFileRaises)
        IN  IF Sidebar(folder_input).raised # ""
            THEN /\ out' = SidebarFailed("create", folder_input)
                 /\ UNCHANGED <<fs, disk, saved, cmpOld, cmpNew, wr, rd>>
            ELSE IF current.raised # ""
            THEN /\ out' = [op |-> "create", folder |-> folder_input,
                            stage |-> "handler", err |-> current.raised,
                            saveCalled |-> FALSE]
                 /\ UNCHANGED <<fs, disk, saved, cmpOld, cmpNew, wr, rd>>
            ELSE \E fault \in Faults(current.results) :
                    LET sv == save_baseline_for(disk, folder_input,
                                                current.results, fault)
                    IN  /\ disk' = sv.disk
                        /\ out' = [op |-> "create", folder |-> folder_input,
                                   stage |-> "handler", err |-> sv.raised,
                                   saveCalled |-> TRUE,
                                   overwrote |->
                                       BaselineFile(folder_input) \in DOMAIN disk,
                                   current |-> current.results]
                        /\ saved' =
                             [saved EXCEPT ![folder_input] =
                                IF sv.raised = ""
                                THEN [st |-> "ok", files |-> current.results]
                                ELSE IF fault.at = "open" THEN @
                                ELSE [st |-> "torn"]]
                        /\ UNCHANGED <<fs, cmpOld, cmpNew, wr, rd>>

\* Lines 213-226, "Load Existing Baseline".
LoadBaseline(folder_input) ==
    LET b == load_baseline_for(disk, folder_input)
    IN  /\ out = Idle
        /\ out' = IF Sidebar(folder_input).raised # ""
                  THEN SidebarFailed("load", folder_input)
                  ELSE [op |-> "load", folder |-> folder_input,
                        stage |-> "handler", err |-> "", b |-> b.value]
        /\ UNCHANGED <<fs, disk, saved, cmpOld, cmpNew, wr, rd>>

\* Lines 229-272, "Scan & Compare with Baseline".
ScanCompare(folder_input) ==
    /\ out = Idle
    /\ \E isFileRaises \in BOOLEAN :
        LET baseline == load_baseline_for(disk, folder_input)
            curr     == scan_folder(folder_input, fs, isFileRaises)
        IN  /\ out' =
                 IF Sidebar(folder_input).raised # ""
                 THEN SidebarFailed("scan_compare", folder_input)
                 ELSE IF baseline.value = PyNone
                 THEN [op |-> "scan_compare", folder |-> folder_input,
                       stage |-> "handler", err |-> "", warning |-> TRUE]
                 ELSE IF curr.raised # ""
                 THEN [op |-> "scan_compare", folder |-> folder_input,
                       stage |-> "handler", err |-> curr.raised]
                 ELSE [op |-> "scan_compare", folder |-> folder_input,
                       stage |-> "handler", err |-> "",
                       comp |-> compare(baseline.value.files, curr.results)]
            /\ UNCHANGED <<fs, disk, saved, cmpOld, cmpNew, wr, rd>>

Next ==
    \/ \E f \in AllFiles : \E s \in FileStates(f) : FsChange(f, s)
    \/ \E F \in Folders : CreateBaseline(F)
    \/ \E F \in Folders : LoadBaseline(F)
    \/ \E F \in Folders : ScanCompare(F)
    \/ Rendered

Spec == Init /\ [][Next]_vars

----------------------------------------------------------------------------
(* Properties of the script's runs *)

\* The run reached the Create Baseline handler (lines 202-210).
CreateRan(o) == o.op = "create" /\ o.stage = "handler"

\* C3: load_baseline_for(F) returns the files of the last completed save for
\* F and nothing of an earlier one; with no save for F ever started it
\* returns None, raising nothing.
C3_LoadReturnsLastSave ==
    \A F \in Folders :
        LET b == load_baseline_for(disk, F)
        IN  /\ saved[F].st = "never" => b = [raised |-> "", value |-> PyNone]
            /\ saved[F].st = "ok" =>
                 /\ b.raised = ""
                 /\ b.value # PyNone
                 /\ b.value.folder = PyStr(F)
                 /\ DictEq(b.value.files, saved[F].files)
                 /\ Len(b.value.files) = Len(saved[F].files)

\* A save has just replaced an existing baseline of its folder by a smaller
\* one, another folder's baseline lying beside it.
C3_Witness ==
    /\ CreateRan(out) /\ out.saveCalled /\ out.err = "" /\ out.overwrote
    /\ Len(out.current) = 1
    /\ \E F \in Folders \ {out.folder} :
          saved[F].st = "ok" /\ Len(saved[F].files) = 2

\* C5: when save_baseline_for raises, the baseline file of the folder is
\* afterwards absent or the complete record it was before the call.
C5_FailedSaveLeavesOldOrNothing ==
    [][(CreateRan(out') /\ out'.saveCalled /\ out'.err # "") =>
          LET fp == BaselineFile(out'.folder)
          IN  \/ fp \notin DOMAIN disk'
              \/ /\ fp \in DOMAIN disk
                 /\ disk'[fp] = disk[fp]
                 /\ json_load(disk'[fp]).raised = ""]_vars

\* C6: the Create Baseline handler run for a root that does not exist ends
\* with FileNotFoundError, save_baseline_for not called and every stored
\* baseline as it was.
C6_MissingRootSavesNothing ==
    [][(CreateRan(out') /\ ~exists(fs, PathOf(out'.folder))) =>
          /\ out'.err = "FileNotFoundError"
          /\ ~out'.saveCalled
          /\ disk' = disk
          /\ saved' = saved]_vars

\* The missing root was asked for with baselines of other folders stored.
C6_Witness ==
    /\ CreateRan(out) /\ out.err = "FileNotFoundError"
    /\ ~exists(fs, PathOf(out.folder))
    /\ \E F \in Folders : saved[F].st = "ok" /\ Len(saved[F].files) > 0

\* The part of a path after its last separator.
RECURSIVE BaseName(_)
BaseName(path) ==
    IF \A i \in 1..Len(path) : path[i] # Sep THEN path
    ELSE BaseName(Tail(path))

\* The files the tree holds under root.
FilesUnder(tree, root) ==
    {f \in AllFiles : startswith(f, root \o <<Sep>>) /\ tree[f] # Absent}

\* C7: get_file_info raises nothing, so a scan of an existing root returns,
\* with one entry for every file of the walk that is no lock file, the entry
\* of a file whose stat failed having error set and no size or times.
C7_ScanSurvivesStatFailure ==
    (CreateRan(out) /\ exists(fs, PathOf(out.folder))) =>
        /\ out.saveCalled
        /\ \A f \in FilesUnder(fs, PathOf(out.folder)) :
              ~startswith(BaseName(f), <<"~", "$">>) =>
                 /\ f \in DictKeys(out.current)
                 /\ fs[f] = StatFails =>
                      LET info == DictGet(out.current, f)
                      IN  /\ HasErrorField(info)
                          /\ info.name = PyStr(BaseName(f))
                          /\ info.relpath = PyStr(f)
                          /\ info.size = PyNone /\ info.created = PyNone
                          /\ info.modified = PyNone /\ info.accessed = PyNone

\* C9: a save for one folder string leaves the stored baseline of every
\* other folder string, and what load_baseline_for returns for it, as they
\* were.
C9_OtherFoldersUntouched ==
    [][\A F2 \in Folders :
          (CreateRan(out') /\ out'.saveCalled /\ F2 # out'.folder) =>
              LET fp2 == BaselineFile(F2)
              IN  /\ fp2 \in DOMAIN disk' <=> fp2 \in DOMAIN disk
                  /\ fp2 \in DOMAIN disk => disk'[fp2] = disk[fp2]
                  /\ load_baseline_for(disk', F2) = load_baseline_for(disk, F2)]_vars

\* A completed save for "/d/" beside a stored, different baseline of "/d".
C9_Witness ==
    /\ CreateRan(out) /\ out.saveCalled /\ out.err = ""
    /\ out.folder = <<"/", "d", "/">>
    /\ saved[<<"/", "d">>].st = "ok"
    /\ ~DictEq(saved[<<"/", "d">>].files, out.current)

\* C10: the keys of the dict scan_folder returns are the full paths of the
\* files under the root whose name does not begin with ~$, no more, no less.
C10_ScanKeys ==
    (CreateRan(out) /\ out.saveCalled) =>
        DictKeys(out.current) =
            {f \in FilesUnder(fs, PathOf(out.folder)) :
                ~(Len(BaseName(f)) >= 2 /\ BaseName(f)[1] = "~"
                    /\ BaseName(f)[2] = "$")}

\* The lock file lies beside two files that are scanned, one of them named
\* with a leading ~ in a subdirectory.
C10_Witness ==
    /\ CreateRan(out) /\ out.saveCalled
    /\ fs[LockFile] # Absent
    /\ Len(out.current) = 2

----------------------------------------------------------------------------
(* compare on its own: every pair of dicts two scans can return *)

\* The files get_file_info is called for: <<root, fname>>, in walk order.
RegularFiles == << <<RootDir, <<"z">> >>, <<SubDir, <<"~", "b">> >> >>

\* The dicts holding nothing or one item for RegularFiles[i].
ItemsOf(i) ==
    LET root  == RegularFiles[i][1]
        fname == RegularFiles[i][2]
        sts   == {StatFails} \cup {Readable(v) : v \in 0..(CmpVersions - 1)}
    IN  {<<>>} \cup
        {<< <<join(root, fname), get_file_info(root, fname, st, FALSE).info>> >> :
            st \in sts}

\* os.walk promises no order among the entries of a tree: either order.
CmpDicts ==
    {a \o b : a \in ItemsOf(1), b \in ItemsOf(2)} \cup
    {b \o a : a \in ItemsOf(1), b \in ItemsOf(2)}

InitCompare ==
    /\ cmpOld \in CmpDicts
    /\ cmpNew \in CmpDicts
    /\ out = Idle
    /\ fs = [f \in AllFiles |-> Absent]
    /\ disk = <<>>
    /\ saved = [F \in Folders |-> NeverSaved]
    /\ wr = Idle
    /\ rd = Idle

CompareCall ==
    /\ out = Idle
    /\ out' = [op |-> "compare", res |-> compare(cmpOld, cmpNew)]
    /\ UNCHANGED <<fs, disk, saved, cmpOld, cmpNew, wr, rd>>

NextCompare == CompareCall

SpecCompare == InitCompare /\ [][NextCompare]_vars

Range(q) == {q[i] : i \in 1..Len(q)}

NoDup(q) == Cardinality(Range(q)) = Len(q)

\* q lists exactly the strings of S, each once, in ascending order.
SortedListOf(q, S) ==
    /\ Range(q) = S
    /\ NoDup(q)
    /\ \A i \in 1..Len(q) : \A j \in (i + 1)..Len(q) : StrLess(q[i], q[j])

\* C1: the four sequences compare returns are pairwise disjoint, hold no
\* path twice, and together hold exactly the keys of baseline and current.
C1_Partition ==
    out.op = "compare" =>
        LET r == out.res
        IN  /\ NoDup(r.added) /\ NoDup(r.deleted)
            /\ NoDup(r.changed) /\ NoDup(r.unchanged)
            /\ Range(r.added) \cap Range(r.deleted) = {}
            /\ Range(r.added) \cap Range(r.changed) = {}
            /\ Range(r.added) \cap Range(r.unchanged) = {}
            /\ Range(r.deleted) \cap Range(r.changed) = {}
            /\ Range(r.deleted) \cap Range(r.unchanged) = {}
            /\ Range(r.changed) \cap Range(r.unchanged) = {}
            /\ Range(r.added) \cup Range(r.deleted) \cup Range(r.changed)
                 \cup Range(r.unchanged) = DictKeys(cmpOld) \cup DictKeys(cmpNew)

\* One path only in the baseline, the other in both with differing records.
C1_Witness ==
    /\ out.op = "compare"
    /\ Len(out.res.deleted) = 1
    /\ Len(out.res.changed) = 1

\* C2: compare returns the reference classification, each class sorted:
\* added the keys only in new, deleted the keys only in old, changed the
\* common keys whose records differ in size or in modified, unchanged the
\* common keys whose records agree on both; compare(S, S) puts every key in
\* unchanged.
C2_Reference ==
    out.op = "compare" =>
        LET r   == out.res
            ko  == DictKeys(cmpOld)
            kn  == DictKeys(cmpNew)
            same(p) ==
                /\ Get(DictGet(cmpOld, p), "size") = Get(DictGet(cmpNew, p), "size")
                /\ Get(DictGet(cmpOld, p), "modified")
                     = Get(DictGet(cmpNew, p), "modified")
        IN  /\ SortedListOf(r.added, kn \ ko)
            /\ SortedListOf(r.deleted, ko \ kn)
            /\ SortedListOf(r.changed, {p \in ko \cap kn : ~same(p)})
            /\ SortedListOf(r.unchanged, {p \in ko \cap kn : same(p)})
            /\ DictEq(cmpOld, cmpNew) =>
                   /\ r.added = <<>> /\ r.deleted = <<>> /\ r.changed = <<>>
                   /\ SortedListOf(r.unchanged, ko)

\* Two paths in one class, inserted in the other order than sorted() gives,
\* their records differing in modified alone.
C2_Witness ==
    /\ out.op = "compare"
    /\ Len(out.res.changed) = 2
    /\ cmpNew[1][1] = out.res.changed[2]
    /\ \A p \in DictKeys(cmpOld) :
          Get(DictGet(cmpOld, p), "size") = Get(DictGet(cmpNew, p), "size")

\* C8 as first stated: a common path whose record has error set in either
\* snapshot is never in changed.
C8_ErrorNeverChanged ==
    out.op = "compare" =>
        \A p \in DictKeys(cmpOld) \cap DictKeys(cmpNew) :
            (HasErrorField(DictGet(cmpOld, p)) \/ HasErrorField(DictGet(cmpNew, p)))
                => p \notin Range(out.res.changed)

\* C8, amended: a common path whose record has error set in both snapshots
\* is in unchanged, not in changed; with error set in one snapshot alone it
\* is in changed.
C8_ErrorInBothUnchanged ==
    out.op = "compare" =>
        \A p \in DictKeys(cmpOld) \cap DictKeys(cmpNew) :
            LET eo == HasErrorField(DictGet(cmpOld, p))
                en == HasErrorField(DictGet(cmpNew, p))
            IN  /\ (eo /\ en) =>
                     /\ p \notin Range(out.res.changed)
                     /\ p \in Range(out.res.unchanged)
                /\ (eo # en) => p \in Range(out.res.changed)

\* One common path unreadable in both scans, the other in the current scan
\* alone.
C8_Witness ==
    /\ out.op = "compare"
    /\ \E p, q \in DictKeys(cmpOld) \cap DictKeys(cmpNew) :
          /\ HasErrorField(DictGet(cmpOld, p)) /\ HasErrorField(DictGet(cmpNew, p))
          /\ ~HasErrorField(DictGet(cmpOld, q)) /\ HasErrorField(DictGet(cmpNew, q))

----------------------------------------------------------------------------
(* Two sessions: one in the middle of save_baseline_for, one loading *)

\* Streamlit runs each browser session's script in a thread of its own; the
\* sessions share BASE_DIR. The first session's Create Baseline run is taken
\* one file operation at a time, the second session's load_baseline_for
\* (line 195 of any run of its script) falls between them.

\* Lines 195-206 and 138: the sidebar's load, the scan, then open(fp, "w").
SaveOpen(folder_input) ==
    /\ wr = Idle
    /\ Sidebar(folder_input).raised = ""
    /\ LET current == scan_folder(folder_input, fs, FALSE)
       IN  /\ current.raised = ""
           /\ wr' = [op |-> "saving", folder |-> folder_input,
                     data |-> current.results,
                     chunks |-> json_dump(folder_input, current.results),
                     n |-> 0]
           /\ disk' = OpenTruncate(disk, BaselineFile(folder_input))
    /\ UNCHANGED <<fs, out, saved, cmpOld, cmpNew, rd>>

\* Lines 139-143: json.dump hands the next chunk to f.write.
SaveWrite ==
    /\ wr.op = "saving"
    /\ wr.n < Len(wr.chunks)
    /\ disk' = WriteChunk(disk, BaselineFile(wr.folder), wr.chunks[wr.n + 1])
    /\ wr' = [wr EXCEPT !.n = @ + 1]
    /\ UNCHANGED <<fs, out, saved, cmpOld, cmpNew, rd>>

\* The with block ends: the file is closed, save_baseline_for returns.
SaveClose ==
    /\ wr.op = "saving"
    /\ wr.n = Len(wr.chunks)
    /\ saved' = [saved EXCEPT ![wr.folder] = [st |-> "ok", files |-> wr.data]]
    /\ wr' = Idle
    /\ UNCHANGED <<fs, disk, out, cmpOld, cmpNew, rd>>

\* The second session calls load_baseline_for(folder_input).
Load(folder_input) ==
    LET b == load_baseline_for(disk, folder_input)
    IN  /\ rd' = [op |-> "load", folder |-> folder_input, raised |-> b.raised,
                  found |-> b.raised = "" /\ b.value # PyNone]
        /\ UNCHANGED <<fs, disk, out, saved, cmpOld, cmpNew, wr>>

NextConc ==
    \/ \E f \in AllFiles : \E s \in FileStates(f) : FsChange(f, s)
    \/ \E F \in Folders : SaveOpen(F)
    \/ SaveWrite
    \/ SaveClose
    \/ \E F \in Folders : Load(F)

SpecConc == Init /\ [][NextConc]_vars

\* C4: a load_baseline_for(F) that runs while a save for F is between two of
\* its file operations raises nothing and returns None, the complete
\* baseline stored before the save, or the complete new one.
C4_ReaderSeesWholeRecord ==
    [][\A F \in Folders :
          (rd'.op = "load" /\ rd'.folder = F /\ disk' = disk
              /\ wr.op = "saving" /\ wr.folder = F) =>
             LET b == load_baseline_for(disk, F)
             IN  /\ rd'.raised = ""
                 /\ b.raised = ""
                 /\ \/ b.value = PyNone
                    \/ DictEq(b.value.files, wr.data)
                    \/ /\ saved[F].st = "ok"
                       /\ DictEq(b.value.files, saved[F].files)]_vars

====
